---- MODULE Spec2Model ----
(***************************************************************************)
(* Model of scripts/tts_from_narration.py: the narration parser, the voice *)
(* assignment, the streaming accumulation loop, the WAV container encoder  *)
(* and the output writer of main().                                        *)
(*                                                                         *)
(* Text is a sequence of one-character strings, bytes are integers 0..255. *)
(* Python's None and '' (and None and b'') are both falsy wherever the     *)
(* script reads them, and are both written <<>> here.                      *)
(***************************************************************************)
EXTENDS Integers, Sequences, FiniteSets, TLC

VARIABLES
    pc,            \* position of main()
    kind,          \* how the run ended ("Running" until it ends)
    status,        \* process exit status (-1 until the run ends)
    doc,           \* the narration document at args.input
    voices,        \* args.voices
    api_key,       \* os.environ.get('GEMINI_API_KEY')
    out_file,      \* main's out_file (args.out, or <input_dir>/narration.wav)
    text,          \* joined narration text
    speakers,      \* ordered, deduplicated speaker names
    voice_cycle,   \* the voice palette in use
    request,       \* what is handed to generate_content_stream
    clientCreated, \* genai.Client(...) has been constructed
    requests,      \* number of streaming requests opened
    seen,          \* the stream events delivered so far, in receipt order
    buffers,       \* list of payloads kept by the loop
    first_mime,    \* the retained format descriptor
    exhausted,     \* the for loop over the stream has run to its end
    audio_bytes,   \* the final byte sequence
    out_path,      \* the path handed to save_file
    disk0,         \* the file system at the output paths when the run started
    disk,          \* the file system at the output paths now
    opens          \* number of open(path, 'wb') calls made

vars == <<pc, kind, status, doc, voices, api_key, out_file, text, speakers,
          voice_cycle, request, clientCreated, requests, seen, buffers,
          first_mime, exhausted, audio_bytes, out_path, disk0, disk, opens>>

---------------------------------------------------------------------------
(* Bounds of the model.                                                    *)

MaxSegments == 3    \* entries of a narration document
MaxStream == 3      \* events of one synthesis stream
MaxData == 2        \* payload chunks in an encoder input

---------------------------------------------------------------------------
(* Text helpers: str.strip, str.split, str.join, file line iteration.      *)

NL == "\n"

IsSpace(c) == c \in {" ", NL}

RECURSIVE LStrip(_)
LStrip(s) == IF s # <<>> /\ IsSpace(Head(s)) THEN LStrip(Tail(s)) ELSE s

RECURSIVE RStrip(_)
RStrip(s) ==
    IF s # <<>> /\ IsSpace(s[Len(s)]) THEN RStrip(SubSeq(s, 1, Len(s) - 1)) ELSE s

Strip(s) == RStrip(LStrip(s))

\* str.find(c) + 1: the position of the first c in s, 0 when there is none.
IndexOf(s, c) ==
    IF \E i \in 1..Len(s) : s[i] = c
    THEN CHOOSE i \in 1..Len(s) : s[i] = c /\ \A j \in 1..(i - 1) : s[j] # c
    ELSE 0

\* s.split(sep)
RECURSIVE Split(_, _)
Split(s, sep) ==
    LET i == IndexOf(s, sep)
    IN  IF i = 0 THEN <<s>>
        ELSE <<SubSeq(s, 1, i - 1)>> \o Split(SubSeq(s, i + 1, Len(s)), sep)

\* s.split(sep, 1)
Split1(s, sep) ==
    LET i == IndexOf(s, sep)
    IN  IF i = 0 THEN <<s>>
        ELSE <<SubSeq(s, 1, i - 1), SubSeq(s, i + 1, Len(s))>>

\* s.startswith(prefix)
StartsWith(s, prefix) ==
    Len(s) >= Len(prefix) /\ SubSeq(s, 1, Len(prefix)) = prefix

\* sep.join(parts)
RECURSIVE Join(_, _)
Join(parts, sep) ==
    IF parts = <<>> THEN <<>>
    ELSE IF Len(parts) = 1 THEN parts[1]
    ELSE parts[1] \o <<sep>> \o Join(Tail(parts), sep)

\* b''.join(parts)
RECURSIVE Concat(_)
Concat(parts) == IF parts = <<>> THEN <<>> ELSE Head(parts) \o Concat(Tail(parts))

\* "for raw in f": the lines of a text file, each with its terminator.
RECURSIVE FileLines(_)
FileLines(content) ==
    IF content = <<>> THEN <<>>
    ELSE LET i == IndexOf(content, NL)
         IN  IF i = 0 THEN <<content>>
             ELSE <<SubSeq(content, 1, i)>>
                  \o FileLines(SubSeq(content, i + 1, Len(content)))

Max(S) == CHOOSE m \in S : \A n \in S : n <= m

---------------------------------------------------------------------------
(* Narration Parser: read_narration_text.                                  *)

NameMax == 60

RECURSIVE LeadingSpaces(_)
LeadingSpaces(s) ==
    IF s # <<>> /\ IsSpace(Head(s)) THEN 1 + LeadingSpaces(Tail(s)) ELSE 0

\* re.match(r'^\s*([^:]{1,60}):\s*', t): group(1), when the pattern matches.
\* The colon matched is the first one; \s* is greedy and gives back what the
\* group needs to hold 1..60 characters.
SpeakerMatch(t) ==
    LET p == IndexOf(t, ":")
        starts == {i \in 0..LeadingSpaces(t) :
                      p - 1 - i >= 1 /\ p - 1 - i <= NameMax}
    IN  IF p = 0 \/ starts = {}
        THEN [matched |-> FALSE, group |-> <<>>]
        ELSE [matched |-> TRUE, group |-> SubSeq(t, Max(starts) + 1, p - 1)]

InSeq(x, s) == \E i \in 1..Len(s) : s[i] = x

\* The speakers list after the kept line t.
AddSpeaker(spk, t) ==
    LET m == SpeakerMatch(t)
        name == Strip(m.group)
    IN  IF m.matched /\ name # <<>> /\ ~InSeq(name, spk)
        THEN Append(spk, name)
        ELSE spk

\* seg.get('text', '')
SegText(seg) == IF seg.has_text THEN seg.text ELSE <<>>

\* The body shared by the two loops: trim, skip the empty, keep the line,
\* register its speaker.
RECURSIVE Scan(_, _, _)
Scan(entries, joined_lines, spk) ==
    IF entries = <<>> THEN [joined_lines |-> joined_lines, speakers |-> spk]
    ELSE LET t == Strip(Head(entries))
         IN  IF t = <<>> THEN Scan(Tail(entries), joined_lines, spk)
             ELSE Scan(Tail(entries), Append(joined_lines, t), AddSpeaker(spk, t))

\* The entries of a document: the segment texts, or the lines of the file.
Entries(d) ==
    IF d.json
    THEN [i \in 1..Len(d.segments) |-> SegText(d.segments[i])]
    ELSE FileLines(d.content)

read_narration_text(d) ==
    LET r == Scan(Entries(d), <<>>, <<>>)
    IN  [text |-> Join(r.joined_lines, NL), speakers |-> r.speakers]

---------------------------------------------------------------------------
(* Voice Assignment: lines 168-199 of main.                                *)

DefaultVoices ==
    << <<"Z", "e", "p", "h", "y", "r">>, <<"P", "u", "c", "k">>,
       <<"O", "r", "i", "o", "l", "e">>, <<"B", "r", "e", "e", "z", "e">> >>

\* [v.strip() for v in parts if v.strip()]
RECURSIVE StripNonBlank(_)
StripNonBlank(parts) ==
    IF parts = <<>> THEN <<>>
    ELSE IF Strip(Head(parts)) = <<>> THEN StripNonBlank(Tail(parts))
    ELSE <<Strip(Head(parts))>> \o StripNonBlank(Tail(parts))

VoiceCycle(v) ==
    LET given == StripNonBlank(IF v # <<>> THEN Split(v, ",") ELSE <<>>)
    IN  IF given # <<>> THEN given ELSE DefaultVoices

\* Mutant of VoiceFor: the index is taken one too far.
VoiceForOffByOne(idx, cycle) == cycle[((idx + 1) % Len(cycle)) + 1]

\* voice_cycle[idx % len(voice_cycle)], idx counted from 0
VoiceFor(idx, cycle) == cycle[(idx % Len(cycle)) + 1]

SpeakerVoiceConfigs(spk, cycle) ==
    [i \in 1..Len(spk) |-> [speaker |-> spk[i], voice_name |-> VoiceFor(i - 1, cycle)]]

\* MultiSpeakerVoiceConfig(...) if speaker_voice_configs else None
MultiSpeaker(configs) ==
    [present |-> configs # <<>>, speaker_voice_configs |-> configs]

NoRequest == [text |-> <<>>, multi_speaker_voice_config |-> MultiSpeaker(<<>>)]

---------------------------------------------------------------------------
(* Container Encoder: parse_audio_mime_type, convert_to_wav.               *)

UpperCase == <<"A", "B", "C", "D", "E", "F", "G", "H", "I", "J", "K", "L", "M",
               "N", "O", "P", "Q", "R", "S", "T", "U", "V", "W", "X", "Y", "Z">>
LowerCase == <<"a", "b", "c", "d", "e", "f", "g", "h", "i", "j", "k", "l", "m",
               "n", "o", "p", "q", "r", "s", "t", "u", "v", "w", "x", "y", "z">>

\* str.lower()
Lower(s) ==
    [i \in 1..Len(s) |->
        IF \E k \in 1..26 : UpperCase[k] = s[i]
        THEN LowerCase[CHOOSE k \in 1..26 : UpperCase[k] = s[i]]
        ELSE s[i]]

DigitChars == <<"0", "1", "2", "3", "4", "5", "6", "7", "8", "9">>

IsDigit(c) == \E d \in 1..10 : DigitChars[d] = c

DigitVal(c) == (CHOOSE d \in 1..10 : DigitChars[d] = c) - 1

RECURSIVE DigitsValue(_, _)
DigitsValue(s, acc) ==
    IF s = <<>> THEN acc
    ELSE IF Head(s) = "_" THEN DigitsValue(Tail(s), acc)
    ELSE DigitsValue(Tail(s), acc * 10 + DigitVal(Head(s)))

\* What int() accepts after the sign: digits, single underscores between them.
DigitString(s) ==
    /\ s # <<>>
    /\ IsDigit(s[1]) /\ IsDigit(s[Len(s)])
    /\ \A i \in 1..Len(s) : IsDigit(s[i]) \/ s[i] = "_"
    /\ \A i \in 1..(Len(s) - 1) : ~(s[i] = "_" /\ s[i + 1] = "_")

\* int(s): surrounding whitespace and one sign are accepted; anything else
\* raises ValueError (ok = FALSE).
ParseInt(s) ==
    LET t == Strip(s)
        signed == t # <<>> /\ t[1] \in {"+", "-"}
        body == IF signed THEN Tail(t) ELSE t
        magnitude == DigitsValue(body, 0)
    IN  IF DigitString(body)
        THEN [ok |-> TRUE, val |-> IF signed /\ t[1] = "-" THEN 0 - magnitude ELSE magnitude]
        ELSE [ok |-> FALSE, val |-> 0]

DefaultBits == 16
DefaultRate == 24000

RatePrefix == <<"r", "a", "t", "e", "=">>
PcmPrefix == <<"a", "u", "d", "i", "o", "/", "L">>

\* The loop over mime_type.split(';'): a later parameter overrides an earlier
\* one, a parameter int() rejects leaves the value as it is.
RECURSIVE ParseParams(_, _, _)
ParseParams(parts, bits, rate) ==
    IF parts = <<>> THEN [bits_per_sample |-> bits, rate |-> rate]
    ELSE LET param == Strip(Head(parts))
         IN  IF StartsWith(Lower(param), RatePrefix)
             THEN LET r == ParseInt(Split1(param, "=")[2])
                  IN  ParseParams(Tail(parts), bits, IF r.ok THEN r.val ELSE rate)
             ELSE IF StartsWith(param, PcmPrefix)
             THEN LET b == ParseInt(Split1(param, "L")[2])
                  IN  ParseParams(Tail(parts), IF b.ok THEN b.val ELSE bits, rate)
             ELSE ParseParams(Tail(parts), bits, rate)

parse_audio_mime_type(mime_type) ==
    ParseParams(Split(mime_type, ";"), DefaultBits, DefaultRate)

\* struct.pack ranges: 'H' takes 0..65535 and 'I' takes 0..4294967295, and
\* struct.error is raised outside them.
FitsH(v) == v >= 0 /\ v <= 65535
FitsI(v) == v >= 0 /\ v \div 65536 <= 65535

\* Little-endian bytes of v in w bytes.
LE(v, w) == [i \in 1..w |-> (v \div (256 ^ (i - 1))) % 256]

RIFF == <<82, 73, 70, 70>>
WAVE == <<87, 65, 86, 69>>
FMT == <<102, 109, 116, 32>>
DATA == <<100, 97, 116, 97>>

\* struct.pack('<4sI4s4sIHHIIHH4sI', ...)
PackHeader(f) ==
    RIFF \o LE(f.chunk_size, 4) \o WAVE \o FMT \o LE(16, 4) \o LE(1, 2)
         \o LE(f.num_channels, 2) \o LE(f.sample_rate, 4) \o LE(f.byte_rate, 4)
         \o LE(f.block_align, 2) \o LE(f.bits_per_sample, 2) \o DATA
         \o LE(f.data_size, 4)

\* convert_to_wav: the bytes returned, or ok = FALSE when struct.pack raises.
convert_to_wav(audio_data, mime_type) ==
    LET params == parse_audio_mime_type(mime_type)
        bits_per_sample == params.bits_per_sample
        sample_rate == params.rate
        num_channels == 1
        data_size == Len(audio_data)
        bytes_per_sample == bits_per_sample \div 8
        block_align == num_channels * bytes_per_sample
        byte_rate == sample_rate * block_align
        chunk_size == 36 + data_size
    IN  IF /\ FitsI(chunk_size) /\ FitsI(sample_rate) /\ FitsI(byte_rate)
           /\ FitsI(data_size) /\ FitsH(num_channels) /\ FitsH(block_align)
           /\ FitsH(bits_per_sample)
        THEN [ok |-> TRUE,
              bytes |-> PackHeader([chunk_size |-> chunk_size,
                                    num_channels |-> num_channels,
                                    sample_rate |-> sample_rate,
                                    byte_rate |-> byte_rate,
                                    block_align |-> block_align,
                                    bits_per_sample |-> bits_per_sample,
                                    data_size |-> data_size])
                        \o audio_data]
        ELSE [ok |-> FALSE, bytes |-> <<>>]

---------------------------------------------------------------------------
(* Output Writer: the extension and the path, lines 227-232 of main.       *)

WavExt == <<".", "w", "a", "v">>
Mp3Ext == <<".", "m", "p", "3">>
AudioMpeg == <<"a", "u", "d", "i", "o", "/", "m", "p", "e", "g">>
AudioXWav == <<"a", "u", "d", "i", "o", "/", "x", "-", "w", "a", "v">>

\* mimetypes.guess_extension(type): the registry is read with the lower-cased
\* type, parameters included; <<>> is None. Two entries of the registry are
\* kept, one that names a container of its own and one that names WAV.
GuessExtension(mime_type) ==
    LET type == Lower(mime_type)
    IN  IF type = AudioMpeg THEN Mp3Ext
        ELSE IF type = AudioXWav THEN WavExt
        ELSE <<>>

\* mimetypes.guess_extension(first_mime) or '.wav'
ExtFor(mime_type) ==
    IF GuessExtension(mime_type) # <<>> THEN GuessExtension(mime_type) ELSE WavExt

EndsWith(s, suffix) ==
    Len(s) >= Len(suffix) /\ SubSeq(s, Len(s) - Len(suffix) + 1, Len(s)) = suffix

\* os.path.splitext(p)[0]: p up to its last dot (the paths of the model hold
\* no directory separator and no leading dot).
SplitExtBase(p) ==
    IF \E i \in 2..Len(p) : p[i] = "."
    THEN SubSeq(p, 1, Max({i \in 2..Len(p) : p[i] = "."}) - 1)
    ELSE p

OutPath(file, ext) ==
    IF EndsWith(Lower(file), ext) THEN file ELSE SplitExtBase(file) \o ext

---------------------------------------------------------------------------
(* The inputs the model draws from.                                        *)

MimeL16 == <<"a", "u", "d", "i", "o", "/", "L", "1", "6", ";", "r", "a", "t", "e", "=", "2", "4", "0", "0", "0">>  \* audio/L16;rate=24000
MimeL24 == <<"a", "u", "d", "i", "o", "/", "L", "2", "4", ";", "r", "a", "t", "e", "=", "4", "8", "0", "0", "0">>  \* audio/L24;rate=48000
MimeL8 == <<"a", "u", "d", "i", "o", "/", "L", "8", ";", "r", "a", "t", "e", "=", "8", "0", "0", "0">>  \* audio/L8;rate=8000
MimeUnknown == <<"a", "u", "d", "i", "o", "/", "u", "n", "k", "n", "o", "w", "n">>  \* audio/unknown
MimeUpperRate == <<"a", "u", "d", "i", "o", "/", "L", "1", "6", ";", " ", "R", "A", "T", "E", "=", "1", "6", "0", "0", "0">>  \* audio/L16; RATE=16000
MimeBadRate == <<"a", "u", "d", "i", "o", "/", "L", "1", "6", ";", "r", "a", "t", "e", "=", "a", "b", "c">>  \* audio/L16;rate=abc
MimeBadBits == <<"a", "u", "d", "i", "o", "/", "L", "x", ";", "r", "a", "t", "e", "=", "2", "2", "0", "5", "0">>  \* audio/Lx;rate=22050
MimeNegativeRate == <<"a", "u", "d", "i", "o", "/", "L", "1", "6", ";", "r", "a", "t", "e", "=", "-", "1">>  \* audio/L16;rate=-1
MimeWideBits == <<"a", "u", "d", "i", "o", "/", "L", "6", "5", "5", "3", "6", ";", "r", "a", "t", "e", "=", "8", "0", "0", "0">>  \* audio/L65536;rate=8000
MimeL12 == <<"a", "u", "d", "i", "o", "/", "L", "1", "2", ";", "r", "a", "t", "e", "=", "8", "0", "0", "0">>  \* audio/L12;rate=8000
MimeTwoRates == <<"a", "u", "d", "i", "o", "/", "L", "1", "6", ";", "r", "a", "t", "e", "=", "8", "0", "0", "0", ";", "r", "a", "t", "e", "=", "4", "4", "1", "0", "0">>  \* audio/L16;rate=8000;rate=44100

\* Descriptors a payload event may carry in the pipeline specification.
StreamMimes == {<<>>, MimeL16, AudioMpeg}

\* Descriptors the encoder is applied to.
EncoderMimes ==
    {<<>>, MimeL16, MimeL24, MimeL8, MimeUnknown, MimeUpperRate, MimeBadRate,
     MimeBadBits, MimeNegativeRate, MimeWideBits, MimeL12, MimeTwoRates,
     AudioMpeg, AudioXWav}

\* One stream event, as the loop probes it: chunk.candidates, the first
\* candidate's content.parts, the first part's inline_data, its data and
\* mime_type.
Event(candidates, content, inline, data, mime_type) ==
    [candidates |-> candidates, content |-> content, inline |-> inline,
     data |-> data, mime_type |-> mime_type]

NoCandidates == Event(FALSE, FALSE, FALSE, <<>>, <<>>)
NoContent == Event(TRUE, FALSE, FALSE, <<>>, <<>>)
NoInline == Event(TRUE, TRUE, FALSE, <<>>, <<>>)
Inline(data, mime_type) == Event(TRUE, TRUE, TRUE, data, mime_type)

Events ==
    {NoCandidates, NoContent, NoInline, Inline(<<>>, AudioMpeg),
     Inline(<<1>>, <<>>), Inline(<<1>>, MimeL16), Inline(<<2, 3>>, AudioMpeg),
     Inline(<<2, 3>>, MimeL16)}

\* Payload chunks of an encoder input.
Chunks == {<<0>>, <<1, 255>>, <<7, 8, 9>>}

SeqsUpTo(S, n) == UNION {[1..k -> S] : k \in 0..n}

TextAmy == <<"a", ":", " ", "x">>
TextBob == <<"b", ":", "y">>
TextCid == <<"c", ":", " ", "z">>
TextAmyAgain == <<" ", "a", " ", ":", "w">>
TextPlain == <<"n">>
TextBlank == <<" ">>
TextTwoLines == <<"p", NL, NL, "q">>
TextColonFirst == <<":", "k">>
\* A name of NameMax + 1 characters before the colon.
TextLongName == [i \in 1..(NameMax + 2) |-> IF i = NameMax + 2 THEN ":" ELSE "L"]

SegTexts ==
    {TextAmy, TextBob, TextCid, TextAmyAgain, TextPlain, TextBlank, TextTwoLines,
     TextColonFirst, TextLongName}

Segments == {[has_text |-> TRUE, text |-> t] : t \in SegTexts}
                \cup {[has_text |-> FALSE, text |-> <<>>]}

\* Pieces a line-form file is made of: a line with or without its terminator.
LinePieces ==
    {TextAmy \o <<NL>>, TextBob \o <<NL>>, TextCid, TextAmyAgain \o <<NL>>,
     TextPlain \o <<NL>>, TextBlank \o <<NL>>, <<NL>>}

JsonDoc(segments) ==
    [exists |-> TRUE, json |-> TRUE, segments |-> segments, content |-> <<>>]
TextDoc(content) ==
    [exists |-> TRUE, json |-> FALSE, segments |-> <<>>, content |-> content]
MissingDoc ==
    [exists |-> FALSE, json |-> TRUE, segments |-> <<>>, content |-> <<>>]

NarrationDocs ==
    {JsonDoc(s) : s \in SeqsUpTo(Segments, MaxSegments)}
        \cup {TextDoc(Concat(p)) : p \in SeqsUpTo(LinePieces, MaxSegments)}

PipelineDocs ==
    {MissingDoc, JsonDoc(<<>>), TextDoc(TextBob \o <<NL>> \o TextPlain \o <<NL>>)}

VoicesArgs ==
    {<<>>, <<" ">>, <<",">>, <<"V">>, <<"V", ",", "W">>,
     <<" ", "V", " ", ",", ",", " ", "W">>}

ApiKeys == {<<>>, <<"k">>}

OutFiles == {<<"n">> \o WavExt, <<"n">> \o Mp3Ext}
Paths == OutFiles

Absent == [exists |-> FALSE, bytes |-> <<>>]
File(bytes) == [exists |-> TRUE, bytes |-> bytes]
OldFile == File(<<9, 9>>)

Disks == [Paths -> {Absent, OldFile}]

---------------------------------------------------------------------------
(* main().                                                                 *)

\* An exception nobody catches ends the interpreter with status 1; a
\* KeyboardInterrupt nobody catches ends it by SIGINT, status 130.
UncaughtStatus == 1
InterruptStatus == 130

HandledStatus ==
    [EmptyNarration |-> 2, MissingCredential |-> 3, NoAudioProduced |-> 4]

\* Mutant of ExitStatus: the no-audio exit reuses the credential exit's status.
ExitStatusShared(k) ==
    IF k = "Success" THEN 0
    ELSE IF k = "NoAudioProduced" THEN HandledStatus["MissingCredential"]
    ELSE IF k \in DOMAIN HandledStatus THEN HandledStatus[k]
    ELSE IF k = "Interrupted" THEN InterruptStatus
    ELSE UncaughtStatus

\* sys.exit(2), sys.exit(3), sys.exit(4); the return of main; an uncaught
\* exception; an interrupt.
ExitStatus(k) ==
    IF k = "Success" THEN 0
    ELSE IF k \in DOMAIN HandledStatus THEN HandledStatus[k]
    ELSE IF k = "Interrupted" THEN InterruptStatus
    ELSE UncaughtStatus

Exit(k) == pc' = "exit" /\ kind' = k /\ status' = ExitStatus(k)

inputs == <<doc, voices, api_key, out_file, disk0>>
parsed == <<text, speakers>>
session == <<voice_cycle, request, clientCreated, requests>>
stream == <<seen, buffers, first_mime, exhausted>>
output == <<audio_bytes, out_path, disk, opens>>

\* The state main() starts in, but for its inputs.
Fresh ==
    /\ kind = "Running" /\ status = -1
    /\ text = <<>> /\ speakers = <<>>
    /\ voice_cycle = <<>> /\ request = NoRequest
    /\ clientCreated = FALSE /\ requests = 0
    /\ seen = <<>> /\ buffers = <<>> /\ first_mime = <<>> /\ exhausted = FALSE
    /\ audio_bytes = <<>> /\ out_path = <<>>
    /\ disk = disk0 /\ opens = 0

Init ==
    /\ pc = "start"
    /\ doc \in PipelineDocs
    /\ voices \in {<<"V", ",", "W">>}
    /\ api_key \in ApiKeys
    /\ out_file \in OutFiles
    /\ disk0 \in Disks
    /\ Fresh

\* Lines 154-157: read_narration_text(inp), then the empty-text exit.
ReadNarration ==
    /\ pc = "start"
    /\ IF ~doc.exists
       THEN Exit("InputNotFound") /\ UNCHANGED parsed
       ELSE LET r == read_narration_text(doc)
            IN  /\ text' = r.text
                /\ speakers' = r.speakers
                /\ IF r.text = <<>>
                   THEN Exit("EmptyNarration")
                   ELSE pc' = "credential" /\ UNCHANGED <<kind, status>>
    /\ UNCHANGED <<inputs, session, stream, output>>

\* Mutant of CheckCredential: the client is constructed before the check.
CheckCredentialLate ==
    /\ pc = "credential"
    /\ clientCreated' = TRUE
    /\ IF api_key = <<>>
       THEN Exit("MissingCredential")
       ELSE pc' = "request" /\ UNCHANGED <<kind, status>>
    /\ UNCHANGED <<inputs, parsed, voice_cycle, request, requests, stream, output>>

\* Lines 159-164: the credential check, then genai.Client(api_key=...).
CheckCredential ==
    /\ pc = "credential"
    /\ IF api_key = <<>>
       THEN Exit("MissingCredential") /\ UNCHANGED clientCreated
       ELSE /\ clientCreated' = TRUE
            /\ pc' = "request"
            /\ UNCHANGED <<kind, status>>
    /\ UNCHANGED <<inputs, parsed, voice_cycle, request, requests, stream, output>>

\* Lines 168-199: the palette, the speaker voice configs, the request.
BuildRequest ==
    /\ pc = "request"
    /\ voice_cycle' = VoiceCycle(voices)
    /\ request' = [text |-> text,
                   multi_speaker_voice_config |->
                       MultiSpeaker(SpeakerVoiceConfigs(speakers, VoiceCycle(voices)))]
    /\ pc' = "open"
    /\ UNCHANGED <<kind, status, inputs, parsed, clientCreated, requests, stream, output>>

\* Line 204: client.models.generate_content_stream(...).
OpenStream ==
    /\ pc = "open"
    /\ requests' = requests + 1
    /\ pc' = "stream"
    /\ UNCHANGED <<kind, status, inputs, parsed, voice_cycle, request, clientCreated,
                   stream, output>>

\* Mutant of Consume: a payload is put in front of the ones already kept.
ConsumePrepend(e) ==
    IF e.candidates /\ e.content /\ e.inline /\ e.data # <<>>
    THEN /\ first_mime' = IF first_mime = <<>> THEN e.mime_type ELSE first_mime
         /\ buffers' = <<e.data>> \o buffers
    ELSE UNCHANGED <<buffers, first_mime>>

\* Mutant of Consume: every payload's descriptor replaces the retained one.
ConsumeLastMime(e) ==
    IF e.candidates /\ e.content /\ e.inline /\ e.data # <<>>
    THEN /\ first_mime' = e.mime_type
         /\ buffers' = Append(buffers, e.data)
    ELSE UNCHANGED <<buffers, first_mime>>

\* Lines 209-220: one turn of the loop on event e.
Consume(e) ==
    IF ~e.candidates THEN UNCHANGED <<buffers, first_mime>>
    ELSE IF ~e.content THEN UNCHANGED <<buffers, first_mime>>
    ELSE IF e.inline /\ e.data # <<>>
    THEN /\ first_mime' = IF first_mime = <<>> THEN e.mime_type ELSE first_mime
         /\ buffers' = Append(buffers, e.data)
    ELSE UNCHANGED <<buffers, first_mime>>

NextChunk ==
    /\ pc = "stream"
    /\ Len(seen) < MaxStream
    /\ \E e \in Events :
          /\ seen' = Append(seen, e)
          /\ Consume(e)
    /\ UNCHANGED <<pc, kind, status, exhausted, inputs, parsed, session, output>>

\* Mutant of StreamEnd: the empty-buffer exit is missing.
StreamEndUnchecked ==
    /\ pc = "stream"
    /\ exhausted' = TRUE
    /\ pc' = "encode"
    /\ UNCHANGED <<kind, status, inputs, parsed, session, seen, buffers, first_mime,
                   output>>

\* Lines 222-224: the stream is exhausted.
StreamEnd ==
    /\ pc = "stream"
    /\ exhausted' = TRUE
    /\ IF buffers = <<>>
       THEN Exit("NoAudioProduced")
       ELSE pc' = "encode" /\ UNCHANGED <<kind, status>>
    /\ UNCHANGED <<inputs, parsed, session, seen, buffers, first_mime, output>>

\* The iterator raises (transport or API error): nothing catches it.
StreamFail ==
    /\ pc = "stream"
    /\ Exit("StreamFailure")
    /\ UNCHANGED <<inputs, parsed, session, stream, output>>

\* Lines 226-237: join, choose the extension and the path, wrap PCM into WAV.
Encode ==
    /\ pc = "encode"
    /\ LET joined == Concat(buffers)
           ext == ExtFor(first_mime)
           wav == convert_to_wav(joined, IF first_mime # <<>> THEN first_mime ELSE MimeL16)
       IN  /\ out_path' = OutPath(out_file, ext)
           /\ IF ext # WavExt
              THEN audio_bytes' = joined /\ pc' = "save" /\ UNCHANGED <<kind, status>>
              ELSE IF wav.ok
              THEN audio_bytes' = wav.bytes /\ pc' = "save" /\ UNCHANGED <<kind, status>>
              ELSE audio_bytes' = joined /\ Exit("EncodeFailure")
    /\ UNCHANGED <<inputs, parsed, session, stream, disk, opens>>

\* How many bytes of data may have reached the file when a write stops early.
PartialLens(data) == {n \in {0, 1, Len(data) - 1} : n < Len(data)}

Prefix(data, n) == SubSeq(data, 1, n)

\* save_file, line 91: open(path, 'wb') truncates the file, or raises OSError.
OpenFile ==
    /\ pc = "save"
    /\ opens' = opens + 1
    /\ \E ok \in BOOLEAN :
          IF ok
          THEN /\ disk' = [disk EXCEPT ![out_path] = File(<<>>)]
               /\ pc' = "opened"
               /\ UNCHANGED <<kind, status>>
          ELSE Exit("WriteFailure") /\ UNCHANGED disk
    /\ UNCHANGED <<inputs, parsed, session, stream, audio_bytes, out_path>>

\* save_file, line 92 and the close of the with block: all of data reaches
\* the file, or OSError is raised after n of its bytes did.
WriteData ==
    /\ pc = "opened"
    /\ \E n \in PartialLens(audio_bytes) \cup {Len(audio_bytes)} :
          /\ disk' = [disk EXCEPT ![out_path] = File(Prefix(audio_bytes, n))]
          /\ IF n = Len(audio_bytes)
             THEN pc' = "written" /\ UNCHANGED <<kind, status>>
             ELSE Exit("WriteFailure")
    /\ UNCHANGED <<inputs, parsed, session, stream, audio_bytes, out_path, opens>>

\* save_file, line 93, and the return of main.
Finish ==
    /\ pc = "written"
    /\ Exit("Success")
    /\ UNCHANGED <<inputs, parsed, session, stream, output>>

\* The process is interrupted where it blocks: in the stream read, where the
\* accumulated bytes are lost, or in the file write, after n bytes.
Interrupt ==
    /\ pc \in {"stream", "opened"}
    /\ Exit("Interrupted")
    /\ IF pc = "opened"
       THEN \E n \in PartialLens(audio_bytes) :
               disk' = [disk EXCEPT ![out_path] = File(Prefix(audio_bytes, n))]
       ELSE UNCHANGED disk
    /\ UNCHANGED <<inputs, parsed, session, stream, audio_bytes, out_path, opens>>

Next ==
    \/ ReadNarration
    \/ CheckCredential
    \/ BuildRequest
    \/ OpenStream
    \/ NextChunk
    \/ StreamEnd
    \/ StreamFail
    \/ Encode
    \/ OpenFile
    \/ WriteData
    \/ Finish
    \/ Interrupt

Spec == Init /\ [][Next]_vars

---------------------------------------------------------------------------
(* The parser and the voice assignment on their own: main() up to the      *)
(* request it builds, over every document and palette of the bounds.       *)

InitNarration ==
    /\ pc = "start"
    /\ doc \in NarrationDocs
    /\ voices \in VoicesArgs
    /\ api_key \in ApiKeys
    /\ out_file = <<"n">> \o WavExt
    /\ disk0 = [p \in Paths |-> Absent]
    /\ Fresh

NextNarration ==
    \/ ReadNarration
    \/ CheckCredential
    \/ BuildRequest

SpecNarration == InitNarration /\ [][NextNarration]_vars

---------------------------------------------------------------------------
(* The encoder on its own: main() at line 226, after a stream of payload   *)
(* events that all carried the descriptor m.                               *)

InitEncoder ==
    /\ pc = "encode"
    /\ kind = "Running" /\ status = -1
    /\ doc = TextDoc(TextPlain)
    /\ voices = <<>>
    /\ api_key = <<"k">>
    /\ out_file \in OutFiles
    /\ disk0 = [p \in Paths |-> Absent]
    /\ text = read_narration_text(doc).text
    /\ speakers = read_narration_text(doc).speakers
    /\ voice_cycle = VoiceCycle(voices)
    /\ request = [text |-> text,
                  multi_speaker_voice_config |->
                      MultiSpeaker(SpeakerVoiceConfigs(speakers, voice_cycle))]
    /\ clientCreated = TRUE /\ requests = 1
    /\ \E chunks \in SeqsUpTo(Chunks, MaxData) \ {<<>>} :
          \E m \in EncoderMimes :
             /\ seen = [i \in 1..Len(chunks) |-> Inline(chunks[i], m)]
             /\ buffers = chunks
             /\ first_mime = m
    /\ exhausted = TRUE
    /\ audio_bytes = <<>> /\ out_path = <<>>
    /\ disk = disk0 /\ opens = 0

NextEncoder == Encode

SpecWav == InitEncoder /\ [][NextEncoder]_vars

---------------------------------------------------------------------------
(* Properties of the pipeline, checked under Spec.                         *)

\* An event carries a payload when its first candidate's first part holds
\* non-empty inline data.
PayloadBearing(e) == e.candidates /\ e.content /\ e.inline /\ e.data # <<>>

\* The payloads of the payload-bearing events of a stream, in receipt order.
RECURSIVE Payloads(_)
Payloads(events) ==
    IF events = <<>> THEN <<>>
    ELSE (IF PayloadBearing(Head(events)) THEN Head(events).data ELSE <<>>)
         \o Payloads(Tail(events))

NoPayloadIn(events) == \A i \in 1..Len(events) : ~PayloadBearing(events[i])

\* C1: a stream that ends without any payload-bearing event ends the run
\* with NoAudioProduced (exit status 4), and the output paths hold what they
\* held when the run started: no file was opened.
C1_NoAudioLeavesDiskAlone ==
    (exhausted /\ NoPayloadIn(seen)) =>
        /\ pc = "exit" /\ kind = "NoAudioProduced" /\ status = 4
        /\ disk = disk0 /\ opens = 0

\* C1 witness: a stream of two or more payload-free events, one of them an
\* inline part without data, has ended, and an earlier file is still there.
C1_Witness ==
    /\ exhausted /\ NoPayloadIn(seen) /\ Len(seen) >= 2
    /\ \E i \in 1..Len(seen) : seen[i].inline
    /\ kind = "NoAudioProduced"
    /\ disk0[out_file] = OldFile /\ disk[out_file] = OldFile

BeforeSave == {"start", "credential", "request", "open", "stream", "encode", "save"}

\* C2: the output path is opened at most once, only after the stream was
\* consumed and the bytes encoded; before that nothing is written; and at
\* exit either the final file is present or the disk is as it was.
C2_WrittenOnceAtEndOrUnchanged ==
    /\ opens <= 1
    /\ pc \in BeforeSave => (disk = disk0 /\ opens = 0)
    /\ opens = 1 => exhausted
    /\ (pc = "exit" /\ kind = "Success") =>
           (opens = 1 /\ disk = [disk0 EXCEPT ![out_path] = File(audio_bytes)])
    /\ pc = "exit" =>
           \/ disk = disk0
           \/ disk = [disk0 EXCEPT ![out_path] = File(audio_bytes)]

\* The part of C2 the code keeps: no run touches the disk before the stream
\* is exhausted and the bytes are encoded, and a run that ends before
\* save_file leaves the disk as it was.
WriteOnlyAtEnd ==
    /\ opens <= 1
    /\ pc \in BeforeSave => (disk = disk0 /\ opens = 0)
    /\ opens = 1 => exhausted
    /\ (pc = "exit" /\ opens = 0) => disk = disk0
    /\ (pc = "exit" /\ kind = "Success") =>
           (opens = 1 /\ disk = [disk0 EXCEPT ![out_path] = File(audio_bytes)])

\* C3: the write is atomic: every output path holds either what it held
\* when the run started or the complete final bytes, in every state.
C3_NoPartialFile ==
    \A p \in Paths :
        \/ disk[p] = disk0[p]
        \/ (p = out_path /\ disk[p] = File(audio_bytes))

Accumulated == Concat(buffers) = Payloads(seen)

\* A step that delivers an event without a payload.
SkipStep ==
    (seen' # seen /\ ~PayloadBearing(seen'[Len(seen')])) =>
        (buffers' = buffers /\ first_mime' = first_mime /\ pc' = "stream"
         /\ kind' = "Running")

\* C4: the accumulated bytes are the payloads of the payload-bearing events
\* in receipt order, and an event without a payload changes neither the
\* buffer nor the retained descriptor and does not end the loop.
C4_ConcatInReceiptOrder == []Accumulated /\ [][SkipStep]_vars

\* C4 witness: the stream has ended after two payloads with a payload-free
\* event between them.
C4_Witness ==
    /\ exhausted /\ Len(seen) = 3
    /\ PayloadBearing(seen[1]) /\ ~PayloadBearing(seen[2]) /\ PayloadBearing(seen[3])
    /\ seen[1].data # seen[3].data
    /\ Len(buffers) = 2

\* The descriptor of the first of these events, <<>> if there is none.
FirstDescriptor(events) == IF events = <<>> THEN <<>> ELSE events[1].mime_type

CarriesDescriptor(e) == e.candidates /\ e.content /\ e.inline /\ e.mime_type # <<>>

CarriesPayloadAndDescriptor(e) == PayloadBearing(e) /\ e.mime_type # <<>>

\* C5 as stated: the retained descriptor is that of the first event of the
\* stream that carries one.
C5_FirstDescriptorOfStream == first_mime = FirstDescriptor(SelectSeq(seen, CarriesDescriptor))

Retained == first_mime = FirstDescriptor(SelectSeq(seen, CarriesPayloadAndDescriptor))

Kept == first_mime # <<>> => first_mime' = first_mime

\* C5 as amended: the retained descriptor is that of the first
\* payload-bearing event that carries one (the descriptor of an event without
\* a payload is never read); once recorded it never changes, and the
\* descriptors of all later events are ignored.
C5_FirstPayloadDescriptor == []Retained /\ [][Kept]_vars

\* C5 witness: a payload without descriptor, then a payload announcing
\* audio/mpeg, then a payload announcing another format: audio/mpeg is kept.
C5_Witness ==
    /\ Len(seen) = 3
    /\ seen[1] = Inline(<<1>>, <<>>)
    /\ PayloadBearing(seen[2]) /\ seen[2].mime_type = AudioMpeg
    /\ PayloadBearing(seen[3]) /\ seen[3].mime_type = MimeL16
    /\ first_mime = AudioMpeg

\* C6 as stated: a run without credential ends with MissingCredential and
\* contacts nothing; a request is opened only with a credential.
C6_AbsentCredentialEndsMissingCredential ==
    /\ (pc = "exit" /\ api_key = <<>>) =>
           (kind = "MissingCredential" /\ ~clientCreated /\ requests = 0)
    /\ (clientCreated \/ requests > 0) => api_key # <<>>

\* C6 as amended: without credential no client is made and no request is
\* opened; the run ends with MissingCredential (status 3) unless the
\* narration, which is read first, already ended it with InputNotFound or
\* EmptyNarration.
C6_CredentialBeforeNetwork ==
    /\ api_key = <<>> =>
           /\ ~clientCreated /\ requests = 0
           /\ pc \in {"start", "credential", "exit"}
           /\ pc = "exit" =>
                 kind \in {"InputNotFound", "EmptyNarration", "MissingCredential"}
           /\ (pc = "exit" /\ doc.exists /\ text # <<>>) =>
                 (kind = "MissingCredential" /\ status = 3)
    /\ (clientCreated \/ requests > 0) => api_key # <<>>

\* C6 witness: a run with narration text and no credential has ended.
C6_Witness ==
    /\ pc = "exit" /\ api_key = <<>> /\ text # <<>>
    /\ kind = "MissingCredential" /\ ~clientCreated /\ requests = 0

FatalKinds ==
    {"InputNotFound", "EmptyNarration", "MissingCredential", "StreamFailure",
     "NoAudioProduced", "WriteFailure"}

UncaughtKinds == {"InputNotFound", "StreamFailure", "WriteFailure"}

\* A run ends at once and for good: no request or open is made twice, and
\* the run is over exactly when its outcome is known.
EndsAtOnce ==
    /\ (kind # "Running") <=> (pc = "exit")
    /\ requests <= 1 /\ opens <= 1
    /\ (pc = "exit" /\ kind = "Success") => status = 0
    /\ (pc = "exit" /\ kind \in FatalKinds) => status # 0

\* C7 as stated: the status of a run that ended with a fatal kind is the
\* status of no other fatal kind.
C7_DistinctStatusPerKind ==
    /\ EndsAtOnce
    /\ (pc = "exit" /\ kind \in FatalKinds) =>
           \A k \in FatalKinds \ {kind} : ExitStatus(k) # status

\* C7 as amended: EmptyNarration, MissingCredential and NoAudioProduced end
\* with 2, 3 and 4, each the status of no other kind; InputNotFound,
\* StreamFailure and WriteFailure are exceptions nobody catches and all end
\* with status 1.
C7_HandledKindsDistinct ==
    /\ EndsAtOnce
    /\ (pc = "exit" /\ kind \in FatalKinds \ UncaughtKinds) =>
           /\ status = HandledStatus[kind]
           /\ \A k \in FatalKinds \ {kind} : ExitStatus(k) # status
    /\ (pc = "exit" /\ kind \in UncaughtKinds) =>
           /\ status = UncaughtStatus
           /\ \A k \in UncaughtKinds : ExitStatus(k) = status

\* C7 witness: a run ended by a write failure, with the status a stream
\* failure has too.
C7_Witness ==
    /\ pc = "exit" /\ kind = "WriteFailure"
    /\ status = ExitStatus("StreamFailure")

---------------------------------------------------------------------------
(* Properties of the parser and the voice assignment, checked under        *)
(* SpecNarration.                                                          *)

NonBlank(t) == Strip(t) # <<>>

StripAll(ts) == [i \in 1..Len(ts) |-> Strip(ts[i])]

\* The non-empty entries of a document, trimmed, in document order.
KeptEntries(d) == SelectSeq(StripAll(Entries(d)), NonBlank)

\* The newline-separated lines of a text; the empty text has none.
LinesOf(t) == IF t = <<>> THEN <<>> ELSE Split(t, NL)

OneLinePerEntry ==
    LET lines == LinesOf(text)
        kept == KeptEntries(doc)
    IN  /\ Len(lines) = Len(kept)
        /\ \A i \in 1..Len(lines) : lines[i] = kept[i]
        /\ \A i \in 1..Len(lines) : NonBlank(lines[i])

\* C8: once the document is read, joinedText has one line per non-empty
\* entry, in the order of the entries, and no blank line, in either form.
C8_OneLinePerEntry == (pc # "start" /\ doc.exists) => OneLinePerEntry

\* The part of C8 the code keeps: the line form, where no entry can hold a
\* newline.
LineFormOneLinePerEntry ==
    (pc # "start" /\ doc.exists /\ ~doc.json) => OneLinePerEntry

\* The speaker a kept line names, <<>> when it names none.
SpeakerOf(t) ==
    LET m == SpeakerMatch(t) IN IF m.matched THEN Strip(m.group) ELSE <<>>

NonEmptyText(t) == t # <<>>

\* The speaker names of a document in document order, repeats included.
SpeakerNames(d) ==
    LET kept == KeptEntries(d)
    IN  SelectSeq([i \in 1..Len(kept) |-> SpeakerOf(kept[i])], NonEmptyText)

FirstAt(names, n) ==
    CHOOSE i \in 1..Len(names) : names[i] = n /\ \A j \in 1..(i - 1) : names[j] # n

\* The voices the caller named: the non-blank entries of the comma list.
GivenVoices(v) == SelectSeq(StripAll(Split(v, ",")), NonEmptyText)

\* C9: the request holds one voice entry per distinct speaker, in the order
\* of first occurrence; entry i (from 0) has palette[i mod len(palette)];
\* the palette is the caller's, or the 4-entry default when the caller's is
\* empty or blank, and never empty; without speakers there is no entry and no
\* multi-speaker configuration.
C9_VoicePerSpeaker ==
    pc = "open" =>
        LET names == SpeakerNames(doc)
            multi == request.multi_speaker_voice_config
            cfg == multi.speaker_voice_configs
        IN  /\ Len(voice_cycle) > 0
            /\ Len(DefaultVoices) = 4
            /\ voice_cycle = IF GivenVoices(voices) = <<>> THEN DefaultVoices
                             ELSE GivenVoices(voices)
            /\ {cfg[i].speaker : i \in 1..Len(cfg)} = {names[i] : i \in 1..Len(names)}
            /\ \A i, j \in 1..Len(cfg) :
                  i < j => /\ cfg[i].speaker # cfg[j].speaker
                           /\ FirstAt(names, cfg[i].speaker) < FirstAt(names, cfg[j].speaker)
            /\ \A i \in 1..Len(cfg) :
                  cfg[i].voice_name = voice_cycle[((i - 1) % Len(voice_cycle)) + 1]
            /\ multi.present <=> cfg # <<>>
            /\ names = <<>> => (cfg = <<>> /\ ~multi.present)

\* C9 witness: three speakers on a palette of two, the third wrapping to the
\* first voice.
C9_Witness ==
    /\ pc = "open"
    /\ Len(voice_cycle) = 2
    /\ Len(request.multi_speaker_voice_config.speaker_voice_configs) = 3
    /\ request.multi_speaker_voice_config.speaker_voice_configs[3].voice_name
           = voice_cycle[1]
    /\ request.multi_speaker_voice_config.speaker_voice_configs[2].voice_name
           = voice_cycle[2]

\* Speakers are deduplicated: a document naming a speaker twice.
DedupReached ==
    /\ pc = "open"
    /\ Len(SpeakerNames(doc)) > Len(speakers)

---------------------------------------------------------------------------
(* Properties of the encoder, checked under SpecWav.                       *)

\* The integer a little-endian field holds.
RECURSIVE FromLE(_)
FromLE(bytes) == IF bytes = <<>> THEN 0 ELSE Head(bytes) + 256 * FromLE(Tail(bytes))

Field(h, first, last) == FromLE(SubSeq(h, first, last))

\* The descriptor the encoder is given: the retained one, else the default.
EncoderMime == IF first_mime # <<>> THEN first_mime ELSE MimeL16

WavHeaderOf(h, raw, bits, rate) ==
    /\ Len(h) = 44 + Len(raw)
    /\ SubSeq(h, 1, 4) = RIFF
    /\ Field(h, 5, 8) = 36 + Len(raw)
    /\ SubSeq(h, 9, 12) = WAVE
    /\ SubSeq(h, 13, 16) = FMT
    /\ Field(h, 17, 20) = 16
    /\ Field(h, 21, 22) = 1
    /\ Field(h, 23, 24) = 1
    /\ Field(h, 25, 28) = rate
    /\ Field(h, 29, 32) = rate * (bits \div 8)
    /\ Field(h, 33, 34) = bits \div 8
    /\ Field(h, 35, 36) = bits
    /\ SubSeq(h, 37, 40) = DATA
    /\ Field(h, 41, 44) = Len(raw)
    /\ SubSeq(h, 45, Len(h)) = raw
    /\ (bits = 16 /\ rate = 24000) => (Field(h, 29, 32) = 48000 /\ Field(h, 33, 34) = 2)

\* C10: for every raw byte sequence and every (bits, rate) parsed from the
\* descriptor, the encoder returns the 44-byte header and the raw bytes.
C10_WavHeader ==
    (pc # "encode" /\ ExtFor(first_mime) = WavExt) =>
        LET p == parse_audio_mime_type(EncoderMime)
        IN  /\ kind = "Running"
            /\ WavHeaderOf(audio_bytes, Concat(buffers), p.bits_per_sample, p.rate)

\* The part of C10 the code keeps: the header is as stated whenever every
\* field fits the width struct.pack gives it.
WavHeaderWhenFieldsFit ==
    (pc # "encode" /\ ExtFor(first_mime) = WavExt) =>
        LET p == parse_audio_mime_type(EncoderMime)
        IN  (/\ FitsH(p.bits_per_sample) /\ FitsI(p.rate)
             /\ FitsI(p.rate * (p.bits_per_sample \div 8))) =>
                /\ kind = "Running"
                /\ WavHeaderOf(audio_bytes, Concat(buffers), p.bits_per_sample, p.rate)

\* Descriptors are parsed as stated: defaults on malformed parts.
ParsedAsExpected ==
    /\ parse_audio_mime_type(MimeL16) = [bits_per_sample |-> 16, rate |-> 24000]
    /\ parse_audio_mime_type(MimeL24) = [bits_per_sample |-> 24, rate |-> 48000]
    /\ parse_audio_mime_type(MimeUnknown) = [bits_per_sample |-> 16, rate |-> 24000]
    /\ parse_audio_mime_type(MimeUpperRate) = [bits_per_sample |-> 16, rate |-> 16000]
    /\ parse_audio_mime_type(MimeBadRate) = [bits_per_sample |-> 16, rate |-> 24000]
    /\ parse_audio_mime_type(MimeBadBits) = [bits_per_sample |-> 16, rate |-> 22050]
    /\ parse_audio_mime_type(MimeNegativeRate) = [bits_per_sample |-> 16, rate |-> -1]
    /\ parse_audio_mime_type(MimeWideBits) = [bits_per_sample |-> 65536, rate |-> 8000]
    /\ parse_audio_mime_type(MimeTwoRates) = [bits_per_sample |-> 16, rate |-> 44100]

====
